---- MODULE Spec2Model ----
(***************************************************************************)
(* A model of the nmbr9 search engine: piece geometry (piece.rs), the Bag  *)
(* of remaining pieces (bag.rs), the canonical State and its placement     *)
(* rule (state.rs), the Results table (results.rs) and the branch-and-     *)
(* bound Worker (worker.rs).                                               *)
(***************************************************************************)
EXTENDS Integers, Sequences, FiniteSets, TLC

VARIABLES
    state,      \* State.pieces of the board being built (a sorted sequence of Placed)
    bag,        \* Bag.data of the pieces not yet placed (count per type)
    last,       \* the Placed handed to State::insert by the last successful try_place
    stacked,    \* the value Bag::score_stacked returned for `bag`, once computed
    results,    \* Results.scores, the shared table (one Option per Bag encoding)
    target,     \* Worker.target
    best_score, \* Worker.best_score
    best_state, \* Worker.best_state
    seen,       \* Worker.seen
    stack,      \* the run_ calls in progress, innermost first: [bag, todo]
    arg,        \* the arguments (bag, state) of the run_ call being made
    wpc,        \* where the Worker is: "idle", "enter", "loop" or "done"
    input,      \* the arguments of a single call of a function under study
    output,     \* what that call returned ([op |-> "none"] before the call)
    todo,       \* Boop::build_tables: the queue of masks still to be tested
    ids,        \* Boop.ids: mask -> index, for every mask stored so far
    tables,     \* Boop.tables.len(): how many Tables have been built
    peer        \* a second Worker, not running at the moment: its fields

board_vars == <<state, bag, last>>
worker_vars == <<results, target, best_score, best_state, seen, stack, arg, wpc>>
call_vars == <<input, output>>
build_vars == <<todo, ids, tables>>
vars == <<state, bag, last, stacked, results, target, best_score, best_state,
          seen, stack, arg, wpc, input, output, todo, ids, tables, peer>>

----------------------------------------------------------------------------
(* piece.rs: constants and the ten base shapes                             *)

UNIQUE_PIECE_COUNT == 10
MAX_ROTATIONS == 4
MAX_EDGE_LENGTH == 4

PIECES == <<
    \b1110101010101110,
    \b1100010001000100,
    \b0110011011001110,
    \b1110001001101110,
    \b0110010011100110,
    \b1110100011101110,
    \b1100100011101110,
    \b1110010011001000,
    \b0110011011001100,
    \b1110111011001100 >>

\* bounds of the model
MaxTarget == 8      \* Bag encodings 0..MaxTarget are used as targets
MaxArea == 34       \* cap on width x height (State::size) of the boards explored
MaxBagCode == 242   \* Bag encodings 0..MaxBagCode are the inputs of score_stacked
MaxBagLen == 6      \* ... restricted to Bags of at most MaxBagLen pieces
MaxKey == 5         \* Bag encodings 0..MaxKey are the keys of the tables upper_subset_score is given
MaxBuildType == 1   \* build_tables is run with the piece types 0..MaxBuildType

Pow2(n) == 2 ^ n

Bit(p, i) == (p \div Pow2(i)) % 2 = 1

\* Piece::from_u16: unpack a 4x4 bitfield into its points
from_u16(p) ==
    [pts |-> {<<3 - (i % 4), i \div 4>> : i \in {j \in 0..15 : Bit(p, j)}},
     bmp |-> p]

to_u16(piece) == piece.bmp

RECURSIVE SumBits(_)
SumBits(S) ==
    IF S = {} THEN 0
    ELSE LET b == CHOOSE c \in S : TRUE IN Pow2(b) + SumBits(S \ {b})

\* Piece::from_pts: pack points into a bitfield (bmp |= 1 << ((3 - x) + y * 4))
from_pts(pts) ==
    [pts |-> pts,
     bmp |-> SumBits({(3 - p[1]) + p[2] * 4 : p \in pts})]

\* Piece::at
at(piece, x, y) ==
    IF x < 0 \/ y < 0 \/ x >= 4 \/ y >= 4 THEN FALSE
    ELSE Bit(piece.bmp, (3 - x) + y * 4)

\* Piece::rot with a slip: the quarter turn goes the other way
rot_counterclockwise(piece) == from_pts({<<3 - p[2], p[1]>> : p \in piece.pts})

\* Piece::rot with a slip: the rotated points are moved back so that their
\* minimum coordinates are 0
rot_normalised(piece) ==
    LET pts == {<<p[2], 3 - p[1]>> : p \in piece.pts}
        mx == IF pts = {} THEN 0
              ELSE CHOOSE v \in {p[1] : p \in pts} : \A p \in pts : v <= p[1]
        my == IF pts = {} THEN 0
              ELSE CHOOSE v \in {p[2] : p \in pts} : \A p \in pts : v <= p[2]
    IN  from_pts({<<p[1] - mx, p[2] - my>> : p \in pts})

\* Piece::rot: rotate by 90 degrees inside the 4x4 frame
rot(piece) == from_pts({<<p[2], 3 - p[1]>> : p \in piece.pts})

RECURSIVE rotn(_, _)
rotn(piece, n) == IF n = 0 THEN piece ELSE rotn(rot(piece), n - 1)

\* The 40 base (type, rotation) shapes in the order Boop::build_tables
\* stores them: packed id = type * MAX_ROTATIONS + rotation.
BaseShape ==
    [id \in 0..(UNIQUE_PIECE_COUNT * MAX_ROTATIONS - 1) |->
        rotn(from_u16(PIECES[(id \div MAX_ROTATIONS) + 1]), id % MAX_ROTATIONS)]

----------------------------------------------------------------------------
(* The overlap table consulted by State::try_place.  A ShapeId is in       *)
(* bijection with its mask (Boop.ids / Boop.bmps), so a shape is carried   *)
(* as the Piece it names and compared by its mask.  The outcome of a       *)
(* lookup is an Overlap value.                                             *)

NoPiece == [pts |-> {}, bmp |-> 0]
OvNone == [kind |-> "None", rem |-> NoPiece]
OvFull == [kind |-> "Full", rem |-> NoPiece]
OvNeighbor == [kind |-> "Neighbor", rem |-> NoPiece]
OvPartial(m) == [kind |-> "Partial", rem |-> m]

Adjacent == {<<0, 1>>, <<0, -1>>, <<1, 0>>, <<-1, 0>>}

\* classify(self, other, dx, dy): `other` shifted by (dx, dy) against `self`.
\* Full iff every cell is covered; Partial(remainder) iff some but not all
\* are, the remainder being the uncovered cells of `other`; Neighbor iff no
\* cell is covered but an edge touches; else None.
classify(self, other, dx, dy) ==
    LET covered == {c \in other.pts : at(self, c[1] + dx, c[2] + dy)}
        has_neighbor == \E c \in other.pts : \E n \in Adjacent :
                            at(self, c[1] + dx + n[1], c[2] + dy + n[2])
    IN  IF covered = other.pts THEN OvFull
        ELSE IF covered # {} THEN OvPartial(from_pts(other.pts \ covered))
        ELSE IF has_neighbor THEN OvNeighbor
        ELSE OvNone

\* OVERLAP_TABLES.at(shape).check(x, y, &p): the table of the candidate's
\* remaining shape, looked up at the candidate's offset from the placed
\* piece p, for p's rotation and type.  The table spans offsets of at most
\* MAX_EDGE_LENGTH; farther apart there is no interaction.
table_check(shape, x, y, p) ==
    LET dx == x - p.x
        dy == y - p.y
    IN  IF dx > MAX_EDGE_LENGTH \/ dx < -MAX_EDGE_LENGTH
           \/ dy > MAX_EDGE_LENGTH \/ dy < -MAX_EDGE_LENGTH
        THEN OvNone
        ELSE classify(BaseShape[p.id], shape, dx, dy)

----------------------------------------------------------------------------
(* state.rs: Placed and State                                              *)

Placed(id, x, y, z) == [id |-> id, x |-> x, y |-> y, z |-> z]

placed_rot(p) == p.id % MAX_ROTATIONS

placed_index(p) == p.id \div MAX_ROTATIONS

\* placed_lt with a slip: z compared ascending
placed_lt_z_ascending(a, b) ==
    IF a.z # b.z THEN a.z < b.z
    ELSE \/ a.id < b.id
         \/ a.id = b.id /\ a.x < b.x
         \/ a.id = b.id /\ a.x = b.x /\ a.y < b.y

\* Ord for Placed: z descending, then (id, x, y) ascending
placed_lt(a, b) ==
    IF a.z # b.z THEN b.z < a.z
    ELSE \/ a.id < b.id
         \/ a.id = b.id /\ a.x < b.x
         \/ a.id = b.id /\ a.x = b.x /\ a.y < b.y

\* sort_unstable of the pieces after a push: the pushed element goes in
\* front of the first element that is not smaller (equal elements are
\* indistinguishable, so stability does not matter).
RECURSIVE sort_insert(_, _)
sort_insert(pieces, p) ==
    IF pieces = <<>> THEN <<p>>
    ELSE IF placed_lt(Head(pieces), p) THEN <<Head(pieces)>> \o sort_insert(Tail(pieces), p)
    ELSE <<p>> \o pieces

RECURSIVE sort_pieces(_)
sort_pieces(pieces) ==
    IF pieces = <<>> THEN <<>>
    ELSE sort_insert(sort_pieces(Tail(pieces)), Head(pieces))

SeqMin(f(_), pieces) ==
    CHOOSE m \in {f(pieces[i]) : i \in 1..Len(pieces)} :
        \A i \in 1..Len(pieces) : m <= f(pieces[i])

SeqMax(f(_), pieces, default) ==
    IF pieces = <<>> THEN default
    ELSE CHOOSE m \in {f(pieces[i]) : i \in 1..Len(pieces)} :
            \A i \in 1..Len(pieces) : m >= f(pieces[i])

GetX(p) == p.x
GetY(p) == p.y

State_new == <<>>

\* insert with a slip: only x is shifted back to 0
insert_shift_x_only(pieces, p) ==
    LET out == sort_pieces(Append(pieces, p))
        xmin == SeqMin(GetX, out)
    IN  [i \in 1..Len(out) |-> [out[i] EXCEPT !.x = out[i].x - xmin]]

\* insert with a slip: the pushed entry is left at the end, not sorted in
insert_no_sort(pieces, p) ==
    LET out == Append(pieces, p)
        xmin == SeqMin(GetX, out)
        ymin == SeqMin(GetY, out)
    IN  [i \in 1..Len(out) |->
            [out[i] EXCEPT !.x = out[i].x - xmin, !.y = out[i].y - ymin]]

\* State::insert: push, sort, then shift every entry by the minimum x and y
insert(pieces, p) ==
    LET out == sort_pieces(Append(pieces, p))
        xmin == SeqMin(GetX, out)
        ymin == SeqMin(GetY, out)
    IN  [i \in 1..Len(out) |->
            [out[i] EXCEPT !.x = out[i].x - xmin, !.y = out[i].y - ymin]]

\* derive(Hash) for State: the length of pieces, then the fields of every
\* entry in order, are fed to the hasher (a 16-bit multiplicative hasher here)
hash_write(h, v) == (h * 31 + v) % 65536

RECURSIVE hash_pieces(_, _)
hash_pieces(pieces, h) ==
    IF pieces = <<>> THEN h
    ELSE LET p == Head(pieces) IN
         hash_pieces(Tail(pieces),
            hash_write(hash_write(hash_write(hash_write(h, p.id), p.x), p.y), p.z))

state_hash(pieces) == hash_pieces(pieces, hash_write(0, Len(pieces)))

RECURSIVE SeqSum(_, _)
SeqSum(f(_), pieces) ==
    IF pieces = <<>> THEN 0 ELSE f(Head(pieces)) + SeqSum(f, Tail(pieces))

\* PieceScore with a slip: the packed id stands in for the type index
PieceScore_packed_id(p) == p.id * p.z

\* p.index() * p.z
PieceScore(p) == placed_index(p) * p.z

\* State::score
score(pieces) == SeqSum(PieceScore, pieces)

XPlus4(p) == p.x + 4
YPlus4(p) == p.y + 4

\* State::size
size(pieces) == <<SeqMax(XPlus4, pieces, 0), SeqMax(YPlus4, pieces, 0)>>

is_empty(pieces) == pieces = <<>>

\* State::layers
layers(pieces) == IF pieces = <<>> THEN 0 ELSE pieces[1].z

NoState == [ok |-> FALSE, pieces |-> <<>>, z |-> 0]
SomeState(pieces, p) == [ok |-> TRUE, pieces |-> insert(pieces, p), z |-> p.z]

\* remaining_piece != piece
narrowed(remaining, piece) == remaining.bmp # BaseShape[piece].bmp

\* empty_accepts with a slip: the rotation of the first piece is not checked
empty_accepts_any_rotation(piece, x, y) == x = 0 /\ y = 0

\* state.rs:98-105, the empty board: only the origin, only rotation 0
empty_accepts(piece, x, y) ==
    x = 0 /\ y = 0 /\ placed_rot(Placed(piece, x, y, 0)) = 0

\* state.rs:126, crossing to the next lower layer with the piece partly covered
crossing_rejects(remaining, piece) == narrowed(remaining, piece)

\* full_accepts with a slip: a Full outcome on the untouched piece is accepted
full_accepts_single(remaining, piece, prev_layer) == prev_layer

\* full_accepts with a slip: the neighbour on the layer above is not required
full_accepts_no_neighbour(remaining, piece, prev_layer) ==
    narrowed(remaining, piece)

\* state.rs:143, a Full outcome is accepted on narrowed coverage with a
\* neighbour on the layer above
full_accepts(remaining, piece, prev_layer) ==
    narrowed(remaining, piece) /\ prev_layer

\* ground_accepts with a slip: a partly covered piece is accepted at the end
ground_accepts_partial(this_layer, remaining, piece) == this_layer

\* ground_accepts with a slip: no ground neighbour is required
ground_accepts_no_neighbour(this_layer, remaining, piece) ==
    ~narrowed(remaining, piece)

\* state.rs:151, the end of the scan
ground_accepts(this_layer, remaining, piece) ==
    this_layer /\ ~narrowed(remaining, piece)

\* The loop of State::try_place over self.pieces[i..], carrying current_z,
\* got_neighbor_this_layer, got_neighbor_prev_layer and remaining_piece.
RECURSIVE try_place_scan(_, _, _, _, _, _, _, _, _)
try_place_scan(pieces, i, piece, x, y, current_z, this_layer, prev_layer, remaining) ==
    IF i > Len(pieces) THEN
        IF ground_accepts(this_layer, remaining, piece)
        THEN SomeState(pieces, Placed(piece, x, y, 0))
        ELSE NoState
    ELSE
        LET p == pieces[i]
            crossing == p.z # current_z
        IN  IF crossing /\ crossing_rejects(remaining, piece) THEN NoState
            ELSE
            LET cz == p.z
                prev == IF crossing THEN this_layer ELSE prev_layer
                this == IF crossing THEN FALSE ELSE this_layer
                rem == IF crossing THEN BaseShape[piece] ELSE remaining
                r == table_check(rem, x, y, p)
            IN  CASE r.kind = "None" ->
                        try_place_scan(pieces, i + 1, piece, x, y, cz, this, prev, rem)
                  [] r.kind = "Neighbor" ->
                        try_place_scan(pieces, i + 1, piece, x, y, cz, TRUE, prev, rem)
                  [] r.kind = "Partial" ->
                        try_place_scan(pieces, i + 1, piece, x, y, cz, this, prev, r.rem)
                  [] r.kind = "Full" ->
                        IF full_accepts(rem, piece, prev)
                        THEN SomeState(pieces, Placed(piece, x, y, p.z + 1))
                        ELSE NoState

\* State::try_place
try_place(pieces, piece, x, y) ==
    IF is_empty(pieces) THEN
        IF empty_accepts(piece, x, y)
        THEN SomeState(pieces, Placed(piece, x, y, 0))
        ELSE NoState
    ELSE try_place_scan(pieces, 1, piece, x, y, layers(pieces), FALSE, TRUE,
                        BaseShape[piece])

----------------------------------------------------------------------------
(* bag.rs                                                                  *)

Types == 0..(UNIQUE_PIECE_COUNT - 1)

Pow3(n) == 3 ^ n

\* from_usize with a slip: p is not divided by 3 between the digits
from_usize_no_divide(p) == [i \in Types |-> p % 3]

\* Bag::from_usize: the ternary digits of p, least significant first
from_usize(p) == [i \in Types |-> (p \div Pow3(i)) % 3]

RECURSIVE as_usize_from(_, _)
as_usize_from(data, i) ==
    IF i = UNIQUE_PIECE_COUNT THEN 0
    ELSE data[i] + 3 * as_usize_from(data, i + 1)

\* Bag::as_usize
as_usize(data) == as_usize_from(data, 0)

RECURSIVE DataSum(_, _)
DataSum(data, i) ==
    IF i = UNIQUE_PIECE_COUNT THEN 0 ELSE data[i] + DataSum(data, i + 1)

\* Bag::len
len(data) == DataSum(data, 0)

\* Bag::is_empty
bag_is_empty(data) == len(data) = 0

\* take with a slip: the zero count is not tested
take_ok_always(data, id) == TRUE

\* Bag::take is defined where the count is positive; on a zero count it panics
take_ok(data, id) == data[id \div MAX_ROTATIONS] # 0

\* take with a slip: the count is left as it was
take_nothing(data, id) == data

\* Bag::take
take(data, id) ==
    [data EXCEPT ![id \div MAX_ROTATIONS] = data[id \div MAX_ROTATIONS] - 1]

\* Bag::contains
contains(data, other) == \A i \in Types : ~(other[i] > data[i])

RECURSIVE score_flat_from(_, _)
score_flat_from(data, i) ==
    IF i = UNIQUE_PIECE_COUNT THEN 0
    ELSE data[i] * i + score_flat_from(data, i + 1)

\* Bag::score_flat
score_flat(data) == score_flat_from(data, 0)

\* score_stacked with three pieces needed per supporting layer
RECURSIVE score_stacked_loop_three(_, _, _, _)
score_stacked_loop_three(data, p, k, remaining) ==
    IF k > 0 THEN
        p * (((remaining + 2) \div 3) - 1)
            + score_stacked_loop_three(data, p, k - 1, remaining - 1)
    ELSE IF p = 0 THEN 0
    ELSE score_stacked_loop_three(data, p - 1, data[p - 1], remaining)

\* The loops of Bag::score_stacked: types from the highest down, one step
\* per copy (k copies of type p still to count, `remaining` pieces left).
RECURSIVE score_stacked_loop(_, _, _, _)
score_stacked_loop(data, p, k, remaining) ==
    IF k > 0 THEN
        p * (((remaining + 1) \div 2) - 1)
            + score_stacked_loop(data, p, k - 1, remaining - 1)
    ELSE IF p = 0 THEN 0
    ELSE score_stacked_loop(data, p - 1, data[p - 1], remaining)

\* Bag::score_stacked
score_stacked(data) ==
    score_stacked_loop(data, UNIQUE_PIECE_COUNT - 1,
                       data[UNIQUE_PIECE_COUNT - 1], len(data))

\* BagIterator::next from the iterator position (i, r): the sequence of the
\* ids still to be yielded.
RECURSIVE bag_iter_from(_, _, _)
bag_iter_from(data, i, r) ==
    IF i < UNIQUE_PIECE_COUNT /\ data[i] = 0 THEN bag_iter_from(data, i + 1, r)
    ELSE IF i = UNIQUE_PIECE_COUNT THEN <<>>
    ELSE <<i * MAX_ROTATIONS + r>>
            \o (IF r + 1 = MAX_ROTATIONS
                THEN bag_iter_from(data, i + 1, 0)
                ELSE bag_iter_from(data, i, r + 1))

\* (&Bag).into_iter() run to exhaustion
bag_iter(data) == bag_iter_from(data, 0, 0)

----------------------------------------------------------------------------
(* The position window Worker::run_ scans for a State, and the boards kept *)
(* by the model.                                                           *)

WindowX(pieces) == (-MAX_EDGE_LENGTH)..(size(pieces)[1] + MAX_EDGE_LENGTH)
WindowY(pieces) == (-MAX_EDGE_LENGTH)..(size(pieces)[2] + MAX_EDGE_LENGTH)

SeqRange(s) == {s[i] : i \in 1..Len(s)}

Max2(a, b) == IF a >= b THEN a ELSE b
Min2(a, b) == IF a <= b THEN a ELSE b

\* the boards the model follows: width x height of State::size within MaxArea
Fits(pieces) == size(pieces)[1] * size(pieces)[2] <= MaxArea

\* Fits(insert(pieces, p)) for a piece put at (x, y), from State::size and the
\* shift of State::insert: the footprint spans min(0, x) .. max(w, x + 4).
FitsAt(pieces, x, y) ==
    (Max2(size(pieces)[1], x + MAX_EDGE_LENGTH) - Min2(0, x))
        * (Max2(size(pieces)[2], y + MAX_EDGE_LENGTH) - Min2(0, y)) <= MaxArea

NoPlaced == Placed(-1, 0, 0, 0)

----------------------------------------------------------------------------
(* results.rs                                                              *)

None == [some |-> FALSE, val |-> 0]
Some(v) == [some |-> TRUE, val |-> v]

\* the keys of Results.scores the model keeps: a Worker for a target in
\* Targets reads and writes only keys of sub-multisets of its target, and
\* the encoding of a sub-multiset is never above the target's.
Targets == 0..MaxTarget

\* Results::new, the scores
Results_new == [i \in Targets |-> None]

\* Results.deltas[i], filled once by Results::new
deltas(i) == score_flat(from_usize(i))

\* upper_subset_score_from with a slip: only the Bags with more pieces are
\* passed over, so the entry of the Bag itself is looked at
RECURSIVE upper_subset_score_from_self(_, _, _, _)
upper_subset_score_from_self(scores, data, i, out) ==
    IF i > MaxTarget THEN out
    ELSE LET b == from_usize(i) IN
         IF len(b) > len(data)
         THEN upper_subset_score_from_self(scores, data, i + 1, out)
         ELSE IF contains(data, b)
         THEN upper_subset_score_from_self(scores, data, i + 1,
                                           Max2(out, scores[i].val))
         ELSE upper_subset_score_from_self(scores, data, i + 1, out)

\* upper_subset_score_from with a slip: the entry replaces `out` instead of
\* being compared with it
RECURSIVE upper_subset_score_from_last(_, _, _, _)
upper_subset_score_from_last(scores, data, i, out) ==
    IF i > MaxTarget THEN out
    ELSE LET b == from_usize(i) IN
         IF len(b) >= len(data)
         THEN upper_subset_score_from_last(scores, data, i + 1, out)
         ELSE IF contains(data, b)
         THEN upper_subset_score_from_last(scores, data, i + 1, scores[i].val)
         ELSE upper_subset_score_from_last(scores, data, i + 1, out)

\* the loop of Results::upper_subset_score from index i on
RECURSIVE upper_subset_score_from(_, _, _, _)
upper_subset_score_from(scores, data, i, out) ==
    IF i > MaxTarget THEN out
    ELSE LET b == from_usize(i) IN
         IF len(b) >= len(data)
         THEN upper_subset_score_from(scores, data, i + 1, out)
         ELSE IF contains(data, b)
         THEN upper_subset_score_from(scores, data, i + 1,
                                      Max2(out, scores[i].val))
         ELSE upper_subset_score_from(scores, data, i + 1, out)

\* Results::upper_subset_score
upper_subset_score(scores, data) == upper_subset_score_from(scores, data, 0, 0)

\* the unwrap() of Results::upper_subset_score panics on an unsolved entry
upper_subset_score_panics(scores, data) ==
    \E i \in Targets :
        LET b == from_usize(i) IN
        len(b) < len(data) /\ contains(data, b) /\ ~scores[i].some

\* Results::upper_score_bound
upper_score_bound(scores, data, pieces) ==
    LET b == as_usize(data)
        sc == IF scores[b].some THEN scores[b].val ELSE score_stacked(data)
    IN  sc + (layers(pieces) + 1) * deltas(b)

\* write_score with a slip: the two arguments are exchanged
write_score_swapped(scores, t, sc) == [scores EXCEPT ![sc] = Some(t)]

\* Results::write_score
write_score(scores, t, sc) == [scores EXCEPT ![t] = Some(sc)]

----------------------------------------------------------------------------
(* worker.rs                                                               *)

\* the (b, s) pairs Worker::run_ collects for a State: every placement of the
\* window that try_place accepts, with its BTreeMap key k = (-score, w + h)
\* and its position ord = (b, x, y) in the order of the three nested loops
\* (the iterator yields the ids in ascending order).
placements(data, pieces) ==
    {[p |-> c[1], s |-> try_place(pieces, c[1], c[2], c[3]).pieces,
      ord |-> c] :
        c \in {c \in SeqRange(bag_iter(data)) \X WindowX(pieces) \X WindowY(pieces) :
                /\ FitsAt(pieces, c[2], c[3])
                /\ try_place(pieces, c[1], c[2], c[3]).ok}}

todo_key(e) ==
    <<0 - score(e.s), size(e.s)[1] + size(e.s)[2], e.ord[1], e.ord[2], e.ord[3]>>

RECURSIVE tuple_lt(_, _, _)
tuple_lt(a, b, i) ==
    IF i > Len(a) THEN FALSE
    ELSE IF a[i] # b[i] THEN a[i] < b[i]
    ELSE tuple_lt(a, b, i + 1)

\* iteration of the BTreeMap: keys ascending, and within one key the Vec in
\* the order the entries were pushed
RECURSIVE todo_seq(_)
todo_seq(S) ==
    IF S = {} THEN <<>>
    ELSE LET m == CHOOSE e \in S :
                    \A f \in S \ {e} : tuple_lt(todo_key(e), todo_key(f), 1)
         IN  <<[p |-> m.p, s |-> m.s]>> \o todo_seq(S \ {m})

\* the todo list Worker::run_ builds for (bag, state)
todo_of(data, pieces) == todo_seq(placements(data, pieces))

NoArg == [bag |-> from_usize(0), state |-> State_new]

\* no single call is under study
NoCall == [op |-> "none"]
NoCallInit == input = NoCall /\ output = NoCall

\* Boop::build_tables has not started
NoBuild == todo = <<>> /\ ids = <<>> /\ tables = 0

\* the fields Worker::new gives a Worker
NoWorker ==
    [target |-> 0, best_score |-> 0, best_state |-> State_new, seen |-> {},
     stack |-> <<>>, arg |-> NoArg, wpc |-> "idle"]

\* Worker::new, and the table before any Worker has run
WorkerInit ==
    /\ results = Results_new
    /\ target = 0
    /\ best_score = 0
    /\ best_state = State_new
    /\ seen = {}
    /\ stack = <<>>
    /\ arg = NoArg
    /\ wpc = "idle"

\* the order in which targets are handed to Workers: a target is run once,
\* after every Bag with fewer pieces has been solved
Schedulable(t) ==
    /\ ~results[t].some
    /\ \A i \in Targets : len(from_usize(i)) < len(from_usize(t)) => results[i].some

\* Worker::new and Worker::run up to its call of run_
Run ==
    \E t \in Targets :
        /\ wpc \in {"idle", "done"}
        /\ Schedulable(t)
        /\ ~upper_subset_score_panics(results, from_usize(t))
        /\ target' = t
        /\ best_score' = upper_subset_score(results, from_usize(t))
        /\ best_state' = State_new
        /\ seen' = {}
        /\ stack' = <<>>
        /\ arg' = [bag |-> from_usize(t), state |-> State_new]
        /\ wpc' = "enter"
        /\ UNCHANGED <<results, board_vars, stacked, call_vars,
                       build_vars, peer>>

\* RunEmptyBag with a slip: the score is compared before the bag is tested
RunEmptyBag_scored ==
    /\ wpc = "enter"
    /\ bag_is_empty(arg.bag)
    /\ best_score' = IF score(arg.state) > best_score
                     THEN score(arg.state) ELSE best_score
    /\ best_state' = IF score(arg.state) > best_score
                     THEN arg.state ELSE best_state
    /\ wpc' = "loop"
    /\ UNCHANGED <<results, target, seen, stack, arg,
                   board_vars, stacked, call_vars, build_vars, peer>>

\* Worker::run_ on an empty bag
RunEmptyBag ==
    /\ wpc = "enter"
    /\ bag_is_empty(arg.bag)
    /\ wpc' = "loop"
    /\ UNCHANGED <<results, target, best_score, best_state, seen, stack, arg,
                   board_vars, stacked, call_vars, build_vars, peer>>

\* RunSeen with a slip: a State already in self.seen is enumerated again
RunSeen_again ==
    /\ wpc = "enter"
    /\ ~bag_is_empty(arg.bag)
    /\ arg.state \in seen
    /\ stack' = <<[bag |-> arg.bag, todo |-> todo_of(arg.bag, arg.state)]>> \o stack
    /\ wpc' = "loop"
    /\ UNCHANGED <<results, target, best_score, best_state, seen, arg,
                   board_vars, stacked, call_vars, build_vars, peer>>

\* Worker::run_ on a State already in self.seen
RunSeen ==
    /\ wpc = "enter"
    /\ ~bag_is_empty(arg.bag)
    /\ arg.state \in seen
    /\ wpc' = "loop"
    /\ UNCHANGED <<results, target, best_score, best_state, seen, stack, arg,
                   board_vars, stacked, call_vars, build_vars, peer>>

\* the update of best_score / best_state at the head of Worker::run_
better(pieces) == score(pieces) > best_score

\* the test that makes Worker::run_ return before enumerating placements,
\* with the best score as updated by this call
prunes(data, pieces, best) ==
    /\ as_usize(data) # target
    /\ upper_score_bound(results, data, pieces) <= best

\* Worker::run_ returning because the bound cannot beat the best score
RunPruned ==
    /\ wpc = "enter"
    /\ ~bag_is_empty(arg.bag)
    /\ arg.state \notin seen
    /\ LET best == IF better(arg.state) THEN score(arg.state) ELSE best_score IN
       /\ prunes(arg.bag, arg.state, best)
       /\ best_score' = best
       /\ best_state' = IF better(arg.state) THEN arg.state ELSE best_state
    /\ wpc' = "loop"
    /\ UNCHANGED <<results, target, seen, stack, arg, board_vars, stacked, call_vars,
                   build_vars, peer>>

\* Worker::run_ enumerating the placements and entering its final loop
RunExpand ==
    /\ wpc = "enter"
    /\ ~bag_is_empty(arg.bag)
    /\ arg.state \notin seen
    /\ LET best == IF better(arg.state) THEN score(arg.state) ELSE best_score IN
       /\ ~prunes(arg.bag, arg.state, best)
       /\ best_score' = best
       /\ best_state' = IF better(arg.state) THEN arg.state ELSE best_state
    /\ seen' = seen \cup {arg.state}
    /\ stack' = <<[bag |-> arg.bag, todo |-> todo_of(arg.bag, arg.state)]>> \o stack
    /\ wpc' = "loop"
    /\ UNCHANGED <<results, target, arg, board_vars, stacked, call_vars,
                   build_vars, peer>>

\* Recurse with a slip: the (p, s) recursed into stays at the head of todo
Recurse_same_entry ==
    /\ wpc = "loop"
    /\ stack # <<>>
    /\ Head(stack).todo # <<>>
    /\ LET top == Head(stack)
           e == Head(top.todo)
       IN  arg' = [bag |-> take(top.bag, e.p), state |-> e.s]
    /\ wpc' = "enter"
    /\ UNCHANGED <<results, target, best_score, best_state, seen, stack,
                   board_vars, stacked, call_vars, build_vars, peer>>

\* the final loop of Worker::run_: the next (p, s) of todo is recursed into
Recurse ==
    /\ wpc = "loop"
    /\ stack # <<>>
    /\ Head(stack).todo # <<>>
    /\ LET top == Head(stack)
           e == Head(top.todo)
       IN  /\ arg' = [bag |-> take(top.bag, e.p), state |-> e.s]
           /\ stack' = <<[top EXCEPT !.todo = Tail(top.todo)]>> \o Tail(stack)
    /\ wpc' = "enter"
    /\ UNCHANGED <<results, target, best_score, best_state, seen, board_vars, stacked, call_vars,
                   build_vars, peer>>

\* the final loop of Worker::run_ is over: return to the caller
Return ==
    /\ wpc = "loop"
    /\ stack # <<>>
    /\ Head(stack).todo = <<>>
    /\ stack' = Tail(stack)
    /\ UNCHANGED <<results, target, best_score, best_state, seen, arg, wpc,
                   board_vars, stacked, call_vars, build_vars, peer>>

\* Worker::run after run_ has returned: the score is written
WriteScore ==
    /\ wpc = "loop"
    /\ stack = <<>>
    /\ results' = write_score(results, target, best_score)
    /\ wpc' = "done"
    /\ UNCHANGED <<target, best_score, best_state, seen, stack, arg,
                   board_vars, stacked, call_vars, build_vars, peer>>

----------------------------------------------------------------------------
(* Specification Spec: boards grown from the empty State by try_place,     *)
(* with the pieces of a target Bag.                                        *)

Init ==
    /\ state = State_new
    /\ bag \in {from_usize(n) : n \in 0..MaxTarget}
    /\ last = NoPlaced
    /\ stacked = None
    /\ WorkerInit
    /\ NoBuild
    /\ peer = NoWorker
    /\ NoCallInit

TryPlace ==
    \E b \in SeqRange(bag_iter(bag)) :
      \E x \in WindowX(state) : \E y \in WindowY(state) :
        /\ FitsAt(state, x, y)
        /\ LET r == try_place(state, b, x, y) IN
           /\ r.ok
           /\ state' = r.pieces
           /\ bag' = take(bag, b)
           /\ last' = Placed(b, x, y, r.z)
        /\ UNCHANGED <<stacked, worker_vars, call_vars, build_vars, peer>>

Next == TryPlace

Spec == Init /\ [][Next]_vars

----------------------------------------------------------------------------
(* Specification WorkerSpec: Workers run one after another on the targets  *)
(* 0..MaxTarget against one Results table.                                 *)

WorkerSpecInit ==
    /\ state = State_new
    /\ bag = from_usize(0)
    /\ last = NoPlaced
    /\ stacked = None
    /\ WorkerInit
    /\ NoBuild
    /\ peer = NoWorker
    /\ NoCallInit

WorkerNext ==
    \/ Run
    \/ RunEmptyBag
    \/ RunSeen
    \/ RunPruned
    \/ RunExpand
    \/ Recurse
    \/ Return
    \/ WriteScore

WorkerSpec == WorkerSpecInit /\ [][WorkerNext]_vars

----------------------------------------------------------------------------
(* Specification BagSpec: Bag::score_stacked applied to a Bag.             *)

BagInputs == {b \in {from_usize(n) : n \in 0..MaxBagCode} : len(b) <= MaxBagLen}

BagSpecInit ==
    /\ state = State_new
    /\ bag \in BagInputs
    /\ last = NoPlaced
    /\ stacked = None
    /\ WorkerInit
    /\ NoBuild
    /\ peer = NoWorker
    /\ NoCallInit

ScoreStacked ==
    /\ ~stacked.some
    /\ stacked' = Some(score_stacked(bag))
    /\ UNCHANGED <<board_vars, worker_vars, call_vars, build_vars, peer>>

BagNext == ScoreStacked

BagSpec == BagSpecInit /\ [][BagNext]_vars

----------------------------------------------------------------------------
(* Specification CodecSpec: Bag::from_usize applied to an index, and       *)
(* Bag::as_usize applied to a Bag.                                         *)

\* the indices of the Results table: 0 .. 3^10 - 1
Codes == 0..(Pow3(UNIQUE_PIECE_COUNT) - 1)

\* the count vectors a Bag can hold
Counts == [Types -> 0..2]

CodecInit ==
    /\ state = State_new
    /\ bag = from_usize(0)
    /\ last = NoPlaced
    /\ stacked = None
    /\ WorkerInit
    /\ NoBuild
    /\ peer = NoWorker
    /\ input \in {[op |-> "from_usize", n |-> n] : n \in Codes}
                \cup {[op |-> "as_usize", data |-> v] : v \in Counts}
    /\ output = NoCall

FromUsize ==
    /\ input.op = "from_usize"
    /\ output = NoCall
    /\ output' = [op |-> "from_usize", data |-> from_usize(input.n)]
    /\ UNCHANGED <<board_vars, stacked, worker_vars, input, build_vars, peer>>

AsUsize ==
    /\ input.op = "as_usize"
    /\ output = NoCall
    /\ output' = [op |-> "as_usize", n |-> as_usize(input.data)]
    /\ UNCHANGED <<board_vars, stacked, worker_vars, input, build_vars, peer>>

CodecNext == FromUsize \/ AsUsize

CodecSpec == CodecInit /\ [][CodecNext]_vars

----------------------------------------------------------------------------
(* Specification TakeSpec: Bag::take applied to a Bag and a packed id.     *)

\* Bags with low types and Bags with high types
TakeInputs ==
    {from_usize(n) : n \in 0..MaxBagCode}
        \cup {from_usize(Pow3(UNIQUE_PIECE_COUNT) - 1 - n) : n \in 0..MaxBagCode}

TakeInit ==
    /\ state = State_new
    /\ bag = from_usize(0)
    /\ last = NoPlaced
    /\ stacked = None
    /\ WorkerInit
    /\ NoBuild
    /\ peer = NoWorker
    /\ input \in {[op |-> "take", data |-> b, id |-> id] :
                    b \in TakeInputs, id \in DOMAIN BaseShape}
    /\ output = NoCall

\* Bag::take returning the reduced clone; the receiver (&self) is untouched
TakeReturns ==
    /\ input.op = "take"
    /\ output = NoCall
    /\ take_ok(input.data, input.id)
    /\ output' = [op |-> "take", panic |-> FALSE,
                  data |-> take(input.data, input.id), self |-> input.data]
    /\ UNCHANGED <<board_vars, stacked, worker_vars, input, build_vars, peer>>

\* Bag::take panicking on a zero count
TakePanics ==
    /\ input.op = "take"
    /\ output = NoCall
    /\ ~take_ok(input.data, input.id)
    /\ output' = [op |-> "take", panic |-> TRUE, self |-> input.data]
    /\ UNCHANGED <<board_vars, stacked, worker_vars, input, build_vars, peer>>

TakeNext == TakeReturns \/ TakePanics

TakeSpec == TakeInit /\ [][TakeNext]_vars

----------------------------------------------------------------------------
(* Specification IterSpec: a BagIterator run over a Bag, one next() per    *)
(* step.                                                                   *)

\* BagIterator::next with a slip: types with count 0 are not skipped
iter_skip_none(data, i) == i

\* the while loop of BagIterator::next: skip the types with count 0
RECURSIVE iter_skip(_, _)
iter_skip(data, i) ==
    IF i < UNIQUE_PIECE_COUNT /\ data[i] = 0 THEN iter_skip(data, i + 1) ELSE i

IterInit ==
    /\ state = State_new
    /\ bag = from_usize(0)
    /\ last = NoPlaced
    /\ stacked = None
    /\ WorkerInit
    /\ NoBuild
    /\ peer = NoWorker
    /\ input \in {[op |-> "iter", data |-> b] : b \in TakeInputs}
    /\ output = NoCall

\* (&Bag).into_iter()
IntoIter ==
    /\ input.op = "iter"
    /\ output = NoCall
    /\ output' = [op |-> "iter", i |-> 0, r |-> 0, yielded |-> <<>>, done |-> FALSE]
    /\ UNCHANGED <<board_vars, stacked, worker_vars, input, build_vars, peer>>

\* BagIterator::next returning Some(out)
IterNextSome ==
    /\ output.op = "iter"
    /\ ~output.done
    /\ LET i == iter_skip(input.data, output.i)
           r == output.r
       IN  /\ i # UNIQUE_PIECE_COUNT
           /\ output' = [output EXCEPT
                  !.yielded = Append(@, i * MAX_ROTATIONS + r),
                  !.r = IF r + 1 = MAX_ROTATIONS THEN 0 ELSE r + 1,
                  !.i = IF r + 1 = MAX_ROTATIONS THEN i + 1 ELSE i]
    /\ UNCHANGED <<board_vars, stacked, worker_vars, input, build_vars, peer>>

\* BagIterator::next returning None
IterNextNone ==
    /\ output.op = "iter"
    /\ ~output.done
    /\ iter_skip(input.data, output.i) = UNIQUE_PIECE_COUNT
    /\ output' = [output EXCEPT !.i = UNIQUE_PIECE_COUNT, !.done = TRUE]
    /\ UNCHANGED <<board_vars, stacked, worker_vars, input, build_vars, peer>>

IterNext == IntoIter \/ IterNextSome \/ IterNextNone

IterSpec == IterInit /\ [][IterNext]_vars

----------------------------------------------------------------------------
(* piece.rs: Piece::check and the RawOverlap it returns.  Boop::build_tables *)
(* calls p.check(&t, x, y) with p one of the 40 base shapes and every offset *)
(* of the window; here t ranges over the 40 shapes the queue is seeded with. *)

RawNone == [kind |-> "None", bmp |-> 0]
RawFull == [kind |-> "Full", bmp |-> 0]
RawNeighbor == [kind |-> "Neighbor", bmp |-> 0]
RawPartial(out) == [kind |-> "Partial", bmp |-> out]

\* Piece::check with a slip: only the horizontal neighbours are probed
check_horizontal_only(self, other, dx, dy) ==
    LET over == {c \in other.pts : at(self, c[1] + dx, c[2] + dy)}
        all_over == over = other.pts
        out == SumBits({(3 - c[1]) + c[2] * 4 : c \in over})
        has_neighbor == \E c \in other.pts : \E n \in {<<1, 0>>, <<-1, 0>>} :
                            at(self, c[1] + dx + n[1], c[2] + dy + n[2])
    IN  IF all_over THEN RawFull
        ELSE IF out # 0 THEN RawPartial(out)
        ELSE IF has_neighbor THEN RawNeighbor
        ELSE RawNone

\* Piece::check: `out` collects the bit of every point of `other` for which
\* self.at(x + dx, y + dy) holds.
check(self, other, dx, dy) ==
    LET over == {c \in other.pts : at(self, c[1] + dx, c[2] + dy)}
        all_over == over = other.pts
        out == SumBits({(3 - c[1]) + c[2] * 4 : c \in over})
        has_neighbor == \E c \in other.pts : \E n \in Adjacent :
                            at(self, c[1] + dx + n[1], c[2] + dy + n[2])
    IN  IF all_over THEN RawFull
        ELSE IF out # 0 THEN RawPartial(out)
        ELSE IF has_neighbor THEN RawNeighbor
        ELSE RawNone

Window == (0 - MAX_EDGE_LENGTH)..MAX_EDGE_LENGTH

CheckInit ==
    /\ input \in {[op |-> "check", self |-> BaseShape[p], other |-> BaseShape[t],
                   dx |-> x, dy |-> y] :
                    p \in DOMAIN BaseShape, t \in DOMAIN BaseShape,
                    x \in Window, y \in Window}
    /\ output = NoCall
    /\ state = State_new /\ bag = from_usize(0) /\ last = NoPlaced
    /\ stacked = None
    /\ WorkerInit
    /\ NoBuild
    /\ peer = NoWorker

\* p.check(&t, x, y)
Check ==
    /\ input.op = "check"
    /\ output = NoCall
    /\ output' = [op |-> "check",
                  result |-> check(input.self, input.other, input.dx, input.dy)]
    /\ UNCHANGED <<input, board_vars, stacked, worker_vars, build_vars, peer>>

CheckNext == Check

CheckSpec == CheckInit /\ [][CheckNext]_vars

----------------------------------------------------------------------------
(* piece.rs: Piece::rot applied four times to a Piece unpacked from a mask *)

Masks == 0..(Pow2(MAX_EDGE_LENGTH * MAX_EDGE_LENGTH) - 1)

RotInit ==
    /\ input \in {[op |-> "rot", mask |-> i] : i \in Masks}
    /\ output = NoCall
    /\ state = State_new /\ bag = from_usize(0) /\ last = NoPlaced
    /\ stacked = None
    /\ WorkerInit
    /\ NoBuild
    /\ peer = NoWorker

\* Piece::from_u16(i).rot().rot().rot().rot().to_u16(); the mask after the
\* first rotation is kept as well.
RotFour ==
    /\ input.op = "rot"
    /\ output = NoCall
    /\ LET p == from_u16(input.mask)
       IN  output' = [op |-> "rot",
                      once |-> to_u16(rot(p)),
                      mask |-> to_u16(rot(rot(rot(rot(p)))))]
    /\ UNCHANGED <<input, board_vars, stacked, worker_vars, build_vars, peer>>

RotNext == RotFour

RotSpec == RotInit /\ [][RotNext]_vars

----------------------------------------------------------------------------
(* results.rs: Results::upper_subset_score called on an arbitrary table.   *)
(* The entries of the keys 0..MaxKey are unsolved or hold a score out of   *)
(* ScoreValues; the keys above MaxKey are unsolved, and no Bag of          *)
(* 0..MaxKey contains the Bag of such a key.                               *)

ScoreValues == {0, 1, 3}

Keys == 0..MaxKey

Tables ==
    {[i \in Targets |-> IF i \in Keys THEN t[i] ELSE None] :
        t \in [Keys -> {None} \cup {Some(v) : v \in ScoreValues}]}

ResultsInit ==
    /\ input \in {[op |-> "upper_subset_score", scores |-> t, data |-> from_usize(b)] :
                    t \in Tables, b \in Keys}
    /\ output = NoCall
    /\ state = State_new /\ bag = from_usize(0) /\ last = NoPlaced
    /\ stacked = None
    /\ WorkerInit
    /\ NoBuild
    /\ peer = NoWorker

\* results.upper_subset_score(&bag) returns
UpperSubsetScoreReturns ==
    /\ input.op = "upper_subset_score"
    /\ output = NoCall
    /\ ~upper_subset_score_panics(input.scores, input.data)
    /\ output' = [op |-> "upper_subset_score", panic |-> FALSE,
                  val |-> upper_subset_score(input.scores, input.data)]
    /\ UNCHANGED <<input, board_vars, stacked, worker_vars, build_vars, peer>>

\* results.upper_subset_score(&bag) unwraps an unsolved entry
UpperSubsetScorePanics ==
    /\ input.op = "upper_subset_score"
    /\ output = NoCall
    /\ upper_subset_score_panics(input.scores, input.data)
    /\ output' = [op |-> "upper_subset_score", panic |-> TRUE, val |-> 0]
    /\ UNCHANGED <<input, board_vars, stacked, worker_vars, build_vars, peer>>

ResultsNext == UpperSubsetScoreReturns \/ UpperSubsetScorePanics

ResultsSpec == ResultsInit /\ [][ResultsNext]_vars

----------------------------------------------------------------------------
(* piece.rs: Boop::store and Boop::build_tables.  The queue is seeded with *)
(* the base shapes of the types 0..MaxBuildType and every popped shape is  *)
(* tested against those base shapes at every offset of the window.  Of a   *)
(* Table only its existence is kept (Boop.tables.len()); Boop.bmps is the  *)
(* inverse of Boop.ids.                                                    *)

BuildBase == 0..((MaxBuildType + 1) * MAX_ROTATIONS - 1)

\* Boop::store with a slip: a mask already stored is reported as new
store_is_new_always(known, bmp) == TRUE

\* Boop::store(bmp).1: the mask was not in Boop.ids
store_is_new(known, bmp) == bmp \notin known

\* the turns of the four nested loops (i and r, then x, then y), and the
\* rank of a turn in the order the loops take them
Turns == BuildBase \X Window \X Window

OVERLAP_SIZE == 2 * MAX_EDGE_LENGTH + 1

turn_rank(c) ==
    (c[1] * OVERLAP_SIZE + (c[2] + MAX_EDGE_LENGTH)) * OVERLAP_SIZE
        + (c[3] + MAX_EDGE_LENGTH)

\* the turns at which p.check(&t, x, y) is Partial and store reports its
\* remainder as new, as <<rank of the turn, remainder>>
new_partials(known, t) ==
    {<<turn_rank(c), check(BaseShape[c[1]], t, c[2], c[3]).bmp>> :
        c \in {d \in Turns :
                 LET result == check(BaseShape[d[1]], t, d[2], d[3])
                 IN  /\ result.kind = "Partial"
                     /\ store_is_new(known, result.bmp)}}

\* store reports a mask as new only once: the first turn that produces it
first_partials(hits) ==
    {h \in hits : \A g \in hits : g[2] = h[2] => h[1] <= g[1]}

\* the remainders in the order of their turns
in_turn_order(hits) ==
    [i \in 1..Cardinality(hits) |->
        (CHOOSE h \in hits : Cardinality({g \in hits : g[1] < h[1]}) = i - 1)[2]]

\* the masks pushed while the Table of t is built (the singleton sets make
\* each stage a value before the next one uses it)
pushes(known, t) ==
    CHOOSE fresh \in {in_turn_order(h) :
                        h \in {first_partials(n) : n \in {new_partials(known, t)}}} :
        TRUE

\* Boop.ids after the masks of `fresh` were stored in turn: a mask that is
\* not in the map yet gets id = ids.len()
store_all(map, fresh) ==
    LET news == SeqRange(fresh) \ DOMAIN map
        first == [m \in news |->
                    CHOOSE j \in DOMAIN fresh :
                        fresh[j] = m /\ \A k \in 1..(j - 1) : fresh[k] # m]
    IN  [m \in DOMAIN map \cup news |->
            IF m \in DOMAIN map THEN map[m]
            ELSE Cardinality(DOMAIN map)
                    + Cardinality({n \in news : first[n] < first[m]})]

BuildInit ==
    /\ NoBuild
    /\ input = NoCall /\ output = NoCall
    /\ state = State_new /\ bag = from_usize(0) /\ last = NoPlaced
    /\ stacked = None
    /\ WorkerInit
    /\ peer = NoWorker

\* build_tables up to its while loop: the base shapes are stored and queued
BuildSeed ==
    /\ tables = 0 /\ todo = <<>> /\ ids = <<>>
    /\ LET base == [k \in 1..Cardinality(BuildBase) |-> to_u16(BaseShape[k - 1])]
       IN  /\ todo' = base
           /\ ids' = store_all(<<>>, base)
    /\ UNCHANGED <<tables, board_vars, stacked, worker_vars, call_vars, peer>>

\* one turn of the while loop: a mask is popped, its Table is built and the
\* new Partial remainders are stored and pushed
BuildPop ==
    /\ todo # <<>>
    /\ LET fresh == pushes(DOMAIN ids, from_u16(Head(todo)))
       IN  /\ todo' = Tail(todo) \o fresh
           /\ ids' = store_all(ids, fresh)
    /\ tables' = tables + 1
    /\ UNCHANGED <<board_vars, stacked, worker_vars, call_vars, peer>>

BuildNext == BuildSeed \/ BuildPop

\* a step of build_tables is possible: before the seeding, and while the
\* queue holds a mask (ENABLED <<BuildNext>>_vars, from the two guards)
BuildEnabled == (tables = 0 /\ todo = <<>> /\ ids = <<>>) \/ todo # <<>>

\* build_tables runs on without waiting for anything: weak fairness of
\* BuildNext, written with BuildEnabled for ENABLED <<BuildNext>>_vars
BuildFairness == []<>(~BuildEnabled) \/ []<><<BuildNext>>_vars

BuildSpec == BuildInit /\ [][BuildNext]_vars /\ BuildFairness

----------------------------------------------------------------------------
(* Specification WorkerRunSpec: the Workers of WorkerSpec, each running    *)
(* synchronously to completion: a step is taken whenever one is possible.  *)

\* some step of a Worker is possible: a call of run_ is being entered, the
\* final loop or the write is pending, or a target can be handed out
WorkerEnabled ==
    \/ wpc \in {"enter", "loop"}
    \/ \E t \in Targets :
          Schedulable(t) /\ ~upper_subset_score_panics(results, from_usize(t))

WorkerFairness == []<>(~WorkerEnabled) \/ []<><<WorkerNext>>_vars

WorkerRunSpec == WorkerSpecInit /\ [][WorkerNext]_vars /\ WorkerFairness

----------------------------------------------------------------------------
(* Worker::run as a function of the table it reads: the value it writes    *)
(* for a target, with run_ visiting the successors in the order of todo.   *)

\* Worker::run_ and its final loop from entry i of todo on; acc holds
\* best_score and seen
RECURSIVE run_(_, _, _, _, _)
RECURSIVE run_each(_, _, _, _, _, _)
run_(scores, t, data, pieces, acc) ==
    IF bag_is_empty(data) \/ pieces \in acc.seen THEN acc
    ELSE LET best == Max2(acc.best, score(pieces)) IN
         IF as_usize(data) # t /\ upper_score_bound(scores, data, pieces) <= best
         THEN [best |-> best, seen |-> acc.seen]
         ELSE CHOOSE r \in
                {run_each(scores, t, data, rest, 1,
                          [best |-> best, seen |-> acc.seen \cup {pieces}]) :
                    rest \in {todo_of(data, pieces)}} : TRUE

run_each(scores, t, data, rest, i, acc) ==
    IF i > Len(rest) THEN acc
    ELSE CHOOSE r \in
            {run_each(scores, t, data, rest, i + 1, a) :
                a \in {run_(scores, t, take(data, rest[i].p), rest[i].s, acc)}} : TRUE

\* Worker::new and Worker::run_ for target t: best_score and seen at the end
run_acc(scores, t) ==
    run_(scores, t, from_usize(t), State_new,
         [best |-> upper_subset_score(scores, from_usize(t)), seen |-> {}])

\* Worker::run: the score written for target t
run(scores, t) == run_acc(scores, t).best

\* the table after a Worker has run for every target of n pieces; next to
\* each score the number of States that Worker expanded
run_level(scores, n) ==
    [k \in Targets |->
        IF len(from_usize(k)) = n
        THEN CHOOSE e \in {[some |-> TRUE, val |-> a.best,
                            expanded |-> Cardinality(a.seen)] :
                               a \in {run_acc(scores, k)}} : TRUE
        ELSE scores[k]]

\* the table after the Workers of all targets with at most n pieces have run
\* one after another, in non-decreasing piece count
RECURSIVE run_upto(_)
run_upto(n) ==
    IF n < 0 THEN Results_new
    ELSE CHOOSE r \in {run_level(s, n) : s \in {run_upto(n - 1)}} : TRUE

\* the largest piece count of a target
MaxPieces ==
    CHOOSE n \in 0..(2 * UNIQUE_PIECE_COUNT) :
        /\ \E k \in Targets : len(from_usize(k)) = n
        /\ \A k \in Targets : len(from_usize(k)) <= n

----------------------------------------------------------------------------
(* Specification OrderSpec: the Workers of WorkerSpec, each visiting the   *)
(* successors of a State in an order of its own instead of the order of    *)
(* todo; `output` holds the table the Workers of WorkerSpec end with.      *)

\* the visiting orders: todo from entry `rot` on, wrapped around, and then
\* front to back or back to front
Orders == [op : {"visit"}, rev : BOOLEAN, rot : 0..2]

\* visit_order with a slip: only the entry that comes first in the order is
\* visited
visit_order_first_only(seq, o) ==
    LET n == Len(seq) IN
    IF n = 0 THEN <<>>
    ELSE <<seq[(((IF o.rev THEN n ELSE 1) - 1 + o.rot) % n) + 1]>>

visit_order(seq, o) ==
    LET n == Len(seq)
        from(i) == IF o.rev THEN n + 1 - i ELSE i
    IN  [i \in 1..n |-> seq[((from(i) - 1 + o.rot) % n) + 1]]

OrderInit ==
    /\ state = State_new
    /\ bag = from_usize(0)
    /\ last = NoPlaced
    /\ stacked = None
    /\ WorkerInit
    /\ NoBuild
    /\ peer = NoWorker
    /\ input = [op |-> "visit", rev |-> FALSE, rot |-> 0]
    /\ output = [op |-> "run", scores |-> run_upto(MaxPieces)]

\* Worker::new and Worker::run up to its call of run_, for a Worker that
\* visits in the order o
RunOrdered ==
    \E t \in Targets : \E o \in Orders :
        /\ wpc \in {"idle", "done"}
        /\ Schedulable(t)
        /\ ~upper_subset_score_panics(results, from_usize(t))
        /\ target' = t
        /\ best_score' = upper_subset_score(results, from_usize(t))
        /\ best_state' = State_new
        /\ seen' = {}
        /\ stack' = <<>>
        /\ arg' = [bag |-> from_usize(t), state |-> State_new]
        /\ wpc' = "enter"
        /\ input' = o
        /\ UNCHANGED <<results, board_vars, stacked, output, build_vars, peer>>

\* Worker::run_ enumerating the placements and entering its final loop,
\* which will take them in the order of this Worker
RunExpandOrdered ==
    /\ wpc = "enter"
    /\ ~bag_is_empty(arg.bag)
    /\ arg.state \notin seen
    /\ LET best == IF better(arg.state) THEN score(arg.state) ELSE best_score IN
       /\ ~prunes(arg.bag, arg.state, best)
       /\ best_score' = best
       /\ best_state' = IF better(arg.state) THEN arg.state ELSE best_state
    /\ seen' = seen \cup {arg.state}
    /\ stack' = <<[bag |-> arg.bag,
                   todo |-> visit_order(todo_of(arg.bag, arg.state), input)]>>
                    \o stack
    /\ wpc' = "loop"
    /\ UNCHANGED <<results, target, arg, board_vars, stacked, call_vars,
                   build_vars, peer>>

OrderNext ==
    \/ RunOrdered
    \/ RunEmptyBag
    \/ RunSeen
    \/ RunPruned
    \/ RunExpandOrdered
    \/ Recurse
    \/ Return
    \/ WriteScore

OrderSpec == OrderInit /\ [][OrderNext]_vars

----------------------------------------------------------------------------
(* Specification ConcSpec: two Workers at a time against one shared        *)
(* Results table. One Worker is the running one, the other one waits in    *)
(* `peer`; every step of a Worker takes the lock of the table at most      *)
(* once, and the Workers may change places before any such step.           *)
(* `output` holds the table the Workers of WorkerSpec end with.            *)

\* the fields of the running Worker
ThisWorker ==
    [target |-> target, best_score |-> best_score, best_state |-> best_state,
     seen |-> seen, stack |-> stack, arg |-> arg, wpc |-> wpc]

Running(w) == w.wpc \in {"enter", "loop"}

ConcInit ==
    /\ state = State_new
    /\ bag = from_usize(0)
    /\ last = NoPlaced
    /\ stacked = None
    /\ WorkerInit
    /\ NoBuild
    /\ peer = NoWorker
    /\ input = NoCall
    /\ output = [op |-> "run", scores |-> run_upto(MaxPieces)]

\* RunConcurrent with a slip: only the Bags the target contains have to be
\* solved, not every Bag with fewer pieces
RunConcurrent_contained_only ==
    \E t \in Targets :
        /\ wpc \in {"idle", "done"}
        /\ ~results[t].some
        /\ Running(peer) => peer.target # t
        /\ ~upper_subset_score_panics(results, from_usize(t))
        /\ target' = t
        /\ best_score' = upper_subset_score(results, from_usize(t))
        /\ best_state' = State_new
        /\ seen' = {}
        /\ stack' = <<>>
        /\ arg' = [bag |-> from_usize(t), state |-> State_new]
        /\ wpc' = "enter"
        /\ UNCHANGED <<results, board_vars, stacked, call_vars,
                       build_vars, peer>>

\* Worker::new and Worker::run up to its call of run_, for a Bag that is
\* not the one the other Worker is running for
RunConcurrent ==
    \E t \in Targets :
        /\ wpc \in {"idle", "done"}
        /\ Schedulable(t)
        /\ Running(peer) => peer.target # t
        /\ ~upper_subset_score_panics(results, from_usize(t))
        /\ target' = t
        /\ best_score' = upper_subset_score(results, from_usize(t))
        /\ best_state' = State_new
        /\ seen' = {}
        /\ stack' = <<>>
        /\ arg' = [bag |-> from_usize(t), state |-> State_new]
        /\ wpc' = "enter"
        /\ UNCHANGED <<results, board_vars, stacked, call_vars,
                       build_vars, peer>>

\* the next step of the running Worker takes the lock of the table: the
\* read in run before run_, the read of the bound in run_, the final write
AtTable ==
    \/ wpc \in {"idle", "done"}
    \/ wpc = "loop" /\ stack = <<>>
    \/ /\ wpc = "enter"
       /\ ~bag_is_empty(arg.bag)
       /\ arg.state \notin seen
       /\ as_usize(arg.bag) # target

\* Worker w has no read of the table left: it is not running, or all its
\* run_ calls have returned and its write is the next step
ReadsDone(w) == ~Running(w) \/ (w.wpc = "loop" /\ w.stack = <<>>)

\* the Workers change places before a step that takes the lock, and the
\* other one goes on from where it was; a Worker that has written its
\* score is dropped. Two reads give the same values in either order, and
\* so does the start of a Worker and a read; the places are changed where
\* it lets a write come between two reads of the other Worker.
Switch ==
    /\ AtTable
    /\ ReadsDone(ThisWorker) \/ (Running(peer) /\ ReadsDone(peer))
    /\ peer # ThisWorker
    /\ peer' = IF wpc = "done" THEN NoWorker ELSE ThisWorker
    /\ target' = peer.target
    /\ best_score' = peer.best_score
    /\ best_state' = peer.best_state
    /\ seen' = peer.seen
    /\ stack' = peer.stack
    /\ arg' = peer.arg
    /\ wpc' = peer.wpc
    /\ UNCHANGED <<results, board_vars, stacked, call_vars, build_vars>>

ConcNext ==
    \/ RunConcurrent
    \/ RunEmptyBag
    \/ RunSeen
    \/ RunPruned
    \/ RunExpand
    \/ Recurse
    \/ Return
    \/ WriteScore
    \/ Switch

ConcSpec == ConcInit /\ [][ConcNext]_vars

----------------------------------------------------------------------------
(* Vocabulary of the properties: the grid cells pieces occupy.             *)

CellsOf(id, x, y) == {<<c[1] + x, c[2] + y>> : c \in BaseShape[id].pts}

PlacedCells(p) == CellsOf(p.id, p.x, p.y)

LayerIdx(pieces, z) == {i \in 1..Len(pieces) : pieces[i].z = z}

LayerCells(pieces, z) == UNION {PlacedCells(pieces[i]) : i \in LayerIdx(pieces, z)}

EdgeAdjacent(A, B) ==
    \E a \in A : \E n \in Adjacent : <<a[1] + n[1], a[2] + n[2]>> \in B

MaxZ(pieces) ==
    IF pieces = <<>> THEN 0
    ELSE CHOOSE m \in {pieces[i].z : i \in 1..Len(pieces)} :
            \A i \in 1..Len(pieces) : pieces[i].z <= m

\* the calls Worker::run_ makes on a State with a Bag: <<id, x, y>>
Candidates(pieces, data) ==
    {<<b, x, y>> : b \in SeqRange(bag_iter(data)),
                   x \in WindowX(pieces), y \in WindowY(pieces)}

\* the pieces of `pieces` that share a cell with `cells`
Overlapping(pieces, cells) ==
    {i \in 1..Len(pieces) : PlacedCells(pieces[i]) \cap cells # {}}

SetMax(S) == CHOOSE m \in S : \A n \in S : n <= m

\* the highest State::score over the States reachable from `pieces` by
\* successful try_place calls that consume pieces of `data` (`pieces` itself
\* and the States that use up `data` included)
RECURSIVE MaxReach(_, _)
MaxReach(data, pieces) ==
    IF bag_is_empty(data) THEN score(pieces)
    ELSE SetMax({score(pieces)} \cup
                {MaxReach(take(data, e.p), e.s) : e \in placements(data, pieces)})

\* the types of the pieces of a Bag, one entry per piece
RECURSIVE bag_types(_, _)
bag_types(data, i) ==
    IF i = UNIQUE_PIECE_COUNT THEN <<>>
    ELSE [k \in 1..data[i] |-> i] \o bag_types(data, i + 1)

\* the assignments of the pieces of a Bag to layers in which every layer
\* with anything above it holds at least 2 pieces.  A piece on layer L needs
\* 2 pieces on each of the L layers below it, so no layer exceeds (n - 1) / 2.
LayerAssignments(data) ==
    LET n == len(data) IN
    {A \in [1..n -> 0..(Max2(n, 1) - 1) \div 2] :
        \A i \in 1..n : \A L \in 0..(A[i] - 1) :
            Cardinality({j \in 1..n : A[j] = L}) >= 2}

RECURSIVE AssignmentTotal(_, _, _)
AssignmentTotal(types, A, i) ==
    IF i > Len(types) THEN 0
    ELSE types[i] * A[i] + AssignmentTotal(types, A, i + 1)

----------------------------------------------------------------------------
(* Properties of the Worker and of the bounds it prunes with               *)

\* C1: after Worker::run for a target T (started with every smaller
\* sub-multiset of T solved) the score written under T's key is the maximum
\* State::score over all States reachable from the empty State by successful
\* try_place calls consuming pieces of T, States using every piece included.
C1_WrittenIsMaximum ==
    wpc = "done" =>
        results[target] = Some(MaxReach(from_usize(target), State_new))

\* C2: whenever run_ consults Results::upper_score_bound(bag, state), the
\* bound is not less than the score of any State reachable from `state` with
\* the pieces of `bag`.
C2_BoundNeverLow ==
    (/\ wpc = "enter"
     /\ ~bag_is_empty(arg.bag)
     /\ arg.state \notin seen
     /\ as_usize(arg.bag) # target)
    => upper_score_bound(results, arg.bag, arg.state) >= MaxReach(arg.bag, arg.state)

\* C3: score_stacked is at least the total of (type index x layer) of every
\* assignment of the Bag's pieces to layers in which each layer with
\* anything above it holds at least 2 pieces.
C3_StackedIsUpperBound ==
    stacked.some =>
        \A A \in LayerAssignments(bag) :
            stacked.val >= AssignmentTotal(bag_types(bag, 0), A, 1)

\* score_stacked has been computed for a Bag of five or more pieces for which
\* an assignment with three layers reaches exactly the returned value
C3_Witness ==
    /\ stacked.some
    /\ len(bag) >= 5
    /\ \E A \in LayerAssignments(bag) :
        /\ \E i \in 1..len(bag) : A[i] = 2
        /\ AssignmentTotal(bag_types(bag, 0), A, 1) = stacked.val
        /\ stacked.val > 0

----------------------------------------------------------------------------
(* Properties of State::try_place and State::insert, under Spec            *)

\* C4: try_place accepts a candidate at layer z+1 only if its cells are
\* jointly covered by at least two distinct placed pieces of layer z; a
\* candidate that rests fully on a single placed piece is rejected.
C4_TwoPieceSupport ==
    \A c \in Candidates(state, bag) :
        LET r == try_place(state, c[1], c[2], c[3])
            cells == CellsOf(c[1], c[2], c[3])
        IN  /\ (r.ok /\ r.z >= 1) =>
                /\ cells \subseteq LayerCells(state, r.z - 1)
                /\ Cardinality(Overlapping(state, cells) \cap LayerIdx(state, r.z - 1)) >= 2
            /\ (\E i \in 1..Len(state) :
                    /\ cells \subseteq PlacedCells(state[i])
                    /\ \A j \in Overlapping(state, cells) : state[j].z <= state[i].z)
                => ~r.ok

\* a candidate was accepted one layer up
C4_Witness == last.id >= 0 /\ last.z >= 1

\* C5: every cell of every piece above the ground lies directly over an
\* occupied cell of the layer below; a candidate that the highest layer it
\* overlaps covers only in part is rejected.
C5_NoFloating ==
    /\ \A i \in 1..Len(state) :
          state[i].z > 0 => PlacedCells(state[i]) \subseteq LayerCells(state, state[i].z - 1)
    /\ \A c \in Candidates(state, bag) :
          LET cells == CellsOf(c[1], c[2], c[3])
              over == Overlapping(state, cells)
              top == MaxZ([i \in 1..Cardinality(over) |->
                              state[CHOOSE k \in over :
                                  Cardinality({m \in over : m < k}) = i - 1]])
          IN  (over # {} /\ ~(cells \subseteq LayerCells(state, top)))
                => ~try_place(state, c[1], c[2], c[3]).ok

\* a board with a piece above the ground on which a candidate that is only
\* partly over the upper layer was tried and rejected
C5_Witness ==
    /\ \E i \in 1..Len(state) : state[i].z > 0
    /\ \E c \in Candidates(state, bag) :
          LET cells == CellsOf(c[1], c[2], c[3]) IN
          /\ cells \cap LayerCells(state, MaxZ(state)) # {}
          /\ ~(cells \subseteq LayerCells(state, MaxZ(state)))
          /\ ~try_place(state, c[1], c[2], c[3]).ok

\* C6: on a non-empty State a candidate is accepted at z = 0 iff it overlaps
\* no placed piece on any layer and shares a grid edge with a ground piece.
C6_GroundRule ==
    state # <<>> =>
        \A c \in Candidates(state, bag) :
            LET r == try_place(state, c[1], c[2], c[3])
                cells == CellsOf(c[1], c[2], c[3])
            IN  (r.ok /\ r.z = 0) <=>
                    /\ Overlapping(state, cells) = {}
                    /\ EdgeAdjacent(cells, LayerCells(state, 0))

\* a second or later piece was accepted on the ground
C6_Witness == Len(state) >= 2 /\ last.z = 0

\* C7: on the empty State try_place succeeds iff x = 0, y = 0 and the id has
\* rotation 0, and then the piece is the single entry, at (0,0,0).
C7_FirstPiece ==
    state = <<>> =>
        \A piece \in DOMAIN BaseShape :
          \A x \in WindowX(state) : \A y \in WindowY(state) :
            LET r == try_place(state, piece, x, y) IN
            /\ r.ok <=> (x = 0 /\ y = 0 /\ piece % MAX_ROTATIONS = 0)
            /\ r.ok => r.pieces = <<Placed(piece, 0, 0, 0)>>

\* the first piece has been placed
C7_Witness == Len(state) = 1 /\ state[1] = last

\* C8: a candidate is accepted onto a layer z >= 1 that already holds pieces
\* only if it shares a grid edge with a piece of that layer; a candidate
\* that the top layer covers jointly with two or more pieces starts a new
\* layer, with no neighbour needed.
C8_UpperNeighbour ==
    state # <<>> =>
        \A c \in Candidates(state, bag) :
            LET r == try_place(state, c[1], c[2], c[3])
                cells == CellsOf(c[1], c[2], c[3])
                topz == MaxZ(state)
            IN  /\ (r.ok /\ r.z >= 1 /\ LayerIdx(state, r.z) # {})
                    => EdgeAdjacent(cells, LayerCells(state, r.z))
                /\ (/\ cells \subseteq LayerCells(state, topz)
                    /\ Cardinality(Overlapping(state, cells) \cap LayerIdx(state, topz)) >= 2)
                    => (r.ok /\ r.z = topz + 1)

\* a piece was accepted onto an upper layer that already held one
C8_Witness ==
    /\ last.id >= 0 /\ last.z >= 1
    /\ Cardinality(LayerIdx(state, last.z)) >= 2

\* C9: after an insert the minimum x and the minimum y over the entries are 0
C9_Normalised ==
    state # <<>> => SeqMin(GetX, state) = 0 /\ SeqMin(GetY, state) = 0

\* the entry inserted last had a negative coordinate
C9_Witness == last.id >= 0 /\ (last.x < 0 \/ last.y < 0) /\ Len(state) >= 2

\* C10: the entries are sorted by (z descending, id, x, y), the first entry
\* has the maximum z, and layers() is that maximum.
C10_Sorted ==
    /\ \A i \in 1..Len(state) : \A j \in 1..Len(state) :
          i < j =>
            \/ state[i].z > state[j].z
            \/ /\ state[i].z = state[j].z
               /\ \/ state[i].id < state[j].id
                  \/ state[i].id = state[j].id /\ state[i].x < state[j].x
                  \/ state[i].id = state[j].id /\ state[i].x = state[j].x
                        /\ state[i].y <= state[j].y
    /\ state # <<>> => state[1].z = MaxZ(state)
    /\ layers(state) = MaxZ(state)

\* a ground piece was inserted into a State that has an upper layer
C10_Witness == last.id >= 0 /\ last.z = 0 /\ MaxZ(state) >= 1

----------------------------------------------------------------------------
(* Properties of the State value                                           *)

Perms(n) == {f \in [1..n -> 1..n] : \A i \in 1..n : \A j \in 1..n : i # j => f[i] # f[j]}

\* the common translations tried for the second sequence of insertions
Shifts == {<<-2, 1>>, <<0, 0>>, <<1, -1>>, <<3, 2>>}

\* the entries of `placed` (positions on the table) inserted one by one into
\* `cur`, each given in the frame of the State it is inserted into; (ox, oy)
\* is the table position of that frame's origin
RECURSIVE insert_all(_, _, _, _)
insert_all(cur, placed, ox, oy) ==
    IF placed = <<>> THEN cur
    ELSE LET a == Head(placed)
             p == Placed(a.id, a.x - ox, a.y - oy, a.z)
             sx == IF cur = <<>> THEN p.x ELSE Min2(0, p.x)
             sy == IF cur = <<>> THEN p.y ELSE Min2(0, p.y)
         IN  insert_all(insert(cur, p), Tail(placed), ox + sx, oy + sy)

\* C11: a second sequence of insertions that puts down the same placed
\* pieces as the sequence that built `state`, in any other order and moved by
\* one common translation, yields a State equal to `state`, with equal hash.
C11_OrderIndependent ==
    \A f \in Perms(Len(state)) : \A t \in Shifts :
        LET other == insert_all(State_new,
                        [i \in 1..Len(state) |->
                            Placed(state[f[i]].id, state[f[i]].x + t[1],
                                   state[f[i]].y + t[2], state[f[i]].z)],
                        0, 0)
        IN  other = state /\ state_hash(other) = state_hash(state)

\* a board of three or more pieces whose last piece was put at a negative
\* coordinate and is not the last entry
C11_Witness ==
    /\ Len(state) >= 3
    /\ last.id >= 0 /\ (last.x < 0 \/ last.y < 0)
    /\ state[Len(state)].id # last.id

----------------------------------------------------------------------------
(* Properties of the Bag                                                   *)

\* C12: for every n in [0, 3^10) the Bag from_usize(n) has every count in
\* {0,1,2} and as_usize gives n back; and every count vector with counts in
\* {0,1,2} is encoded inside [0, 3^10) and decoded back to itself, so the
\* encoding is a bijection.
C12_Bijection ==
    /\ output.op = "from_usize" =>
        /\ \A i \in Types : output.data[i] \in 0..2
        /\ as_usize(output.data) = input.n
    /\ output.op = "as_usize" =>
        /\ output.n \in Codes
        /\ from_usize(output.n) = input.data

\* the largest index has been decoded: every type has count 2
C12_Witness ==
    /\ output.op = "from_usize"
    /\ input.n = Pow3(UNIQUE_PIECE_COUNT) - 1
    /\ \A i \in Types : output.data[i] = 2

\* C13: take(id) on a Bag whose count for type id / 4 is at least 1 returns
\* a Bag with that count reduced by 1, len() reduced by 1 and every other
\* count unchanged, the receiver being left as it was; on a count of 0 take
\* panics and returns no Bag.
C13_Take ==
    output.op = "take" =>
        LET t == input.id \div MAX_ROTATIONS IN
        /\ output.self = input.data
        /\ input.data[t] >= 1 =>
            /\ ~output.panic
            /\ output.data[t] = input.data[t] - 1
            /\ len(output.data) = len(input.data) - 1
            /\ \A i \in Types \ {t} : output.data[i] = input.data[i]
        /\ input.data[t] = 0 => output.panic

\* a piece of the highest type, in its last rotation, was taken from a Bag
\* holding two of that type
C13_Witness ==
    /\ output.op = "take"
    /\ ~output.panic
    /\ input.id \div MAX_ROTATIONS = UNIQUE_PIECE_COUNT - 1
    /\ input.data[UNIQUE_PIECE_COUNT - 1] = 2
    /\ input.id % MAX_ROTATIONS = 3

\* how many of the yielded ids belong to type t
Visits(yielded, t) ==
    Cardinality({j \in 1..Len(yielded) : yielded[j] \div MAX_ROTATIONS = t})

\* C14 as stated: the iteration visits each remaining physical piece exactly
\* once (in each of its rotations), in ascending type order, so a type with
\* count 2 is visited twice as often as a type with count 1 and a type with
\* count 0 is not visited.
C14_EachPieceOnce ==
    (output.op = "iter" /\ output.done) =>
        /\ \A j \in 1..Len(output.yielded) : \A k \in 1..Len(output.yielded) :
              j < k => output.yielded[j] \div MAX_ROTATIONS
                        <= output.yielded[k] \div MAX_ROTATIONS
        /\ \A t \in Types :
              Visits(output.yielded, t) = MAX_ROTATIONS * input.data[t]

\* C14 as amended: the iteration yields, in ascending order and once each,
\* the MAX_ROTATIONS packed ids of every type whose count is at least 1,
\* whether that count is 1 or 2; a type with count 0 is not visited.
C14_EachTypeOnce ==
    (output.op = "iter" /\ output.done) =>
        /\ \A j \in 1..Len(output.yielded) : \A k \in 1..Len(output.yielded) :
              j < k => output.yielded[j] < output.yielded[k]
        /\ SeqRange(output.yielded)
              = {id \in DOMAIN BaseShape : input.data[id \div MAX_ROTATIONS] >= 1}

\* the iteration of a Bag holding a type twice, a type once and a type not
\* at all has ended
C14_Witness ==
    /\ output.op = "iter" /\ output.done
    /\ \E t \in Types : input.data[t] = 2
    /\ \E t \in Types : input.data[t] = 1
    /\ \E t \in Types : input.data[t] = 0


----------------------------------------------------------------------------
\* The cells of `other` shifted by (dx, dy), and the cells of a shape that
\* touch a given cell along an edge.
ShiftedCells(other, dx, dy) == {<<c[1] + dx, c[2] + dy>> : c \in other.pts}

Touches(self, c) == \E n \in Adjacent : <<c[1] + n[1], c[2] + n[2]>> \in self.pts

\* C15: Piece::check returns exactly one outcome: Full iff every shifted cell
\* of `other` is a cell of `self`, Partial iff some but not all are, Neighbor
\* iff none is but some shifted cell touches a cell of `self` along an edge,
\* None otherwise; base shape 0 against itself is Full at (0,0), Neighbor at
\* (3,0) and None at (4,0).
C15_Classification ==
    output.op = "check" =>
        LET self == input.self
            cells == ShiftedCells(input.other, input.dx, input.dy)
            inside == cells \cap self.pts
            kind == output.result.kind
        IN  /\ kind \in {"Full", "Partial", "Neighbor", "None"}
            /\ kind = "Full" <=> cells \subseteq self.pts
            /\ kind = "Partial" <=> inside # {} /\ inside # cells
            /\ kind = "Neighbor" <=>
                    inside = {} /\ \E c \in cells : Touches(self, c)
            /\ kind = "None" <=>
                    inside = {} /\ ~ \E c \in cells : Touches(self, c)
            /\ (self.bmp = PIECES[1] /\ input.other.bmp = PIECES[1]
                    /\ input.dy = 0) =>
                    /\ input.dx = 0 => kind = "Full"
                    /\ input.dx = 3 => kind = "Neighbor"
                    /\ input.dx = 4 => kind = "None"

C15_Witness ==
    /\ output.op = "check"
    /\ input.self.bmp = PIECES[1] /\ input.other.bmp = PIECES[1]
    /\ input.dx = 3 /\ input.dy = 0
    /\ output.result.kind = "Neighbor"

\* C16: when Piece::check returns Partial(remainder), the remainder is the
\* mask of the cells of `other` that `self` does not cover at that offset,
\* in the frame of `other`.
C16_RemainderIsUncovered ==
    (output.op = "check" /\ output.result.kind = "Partial") =>
        LET uncovered == {c \in input.other.pts :
                            <<c[1] + input.dx, c[2] + input.dy>> \notin input.self.pts}
        IN  output.result.bmp = from_pts(uncovered).bmp


\* C17: for each of the 65536 masks of the 4x4 frame, four applications of
\* Piece::rot give a Piece with the original mask.
C17_FourRotations ==
    output.op = "rot" => output.mask = input.mask

C17_Witness ==
    /\ output.op = "rot"
    /\ input.mask = PIECES[2]
    /\ output.once # input.mask
    /\ output.mask = input.mask


\* S is a sub-multiset of B: no type occurs more often in S than in B.
SubBag(S, B) == \A t \in Types : S[t] <= B[t]

\* C18 as stated: for any Results table, any Bag S with a recorded score and
\* any Bag B that is a piece-wise superset of S, upper_subset_score(B)
\* returns a value greater than or equal to the score recorded for S.
C18_SupersetBound ==
    output.op = "upper_subset_score" =>
        \A s \in Keys :
            (input.scores[s].some /\ SubBag(from_usize(s), input.data)) =>
                ~output.panic /\ output.val >= input.scores[s].val

\* C18 as the code has it: upper_subset_score(B) looks only at the Bags that
\* B contains and that have fewer pieces than B.  It panics iff one of them
\* is unsolved; otherwise it returns a value greater than or equal to the
\* score recorded for each of them, equal to one of those scores or to 0,
\* whatever the entry of B itself holds.
C18_SmallerSubsetBound ==
    output.op = "upper_subset_score" =>
        LET smaller == {s \in Keys : /\ SubBag(from_usize(s), input.data)
                                     /\ DataSum(from_usize(s), 0) < DataSum(input.data, 0)}
        IN  /\ output.panic <=> \E s \in smaller : ~input.scores[s].some
            /\ ~output.panic =>
                /\ \A s \in smaller : output.val >= input.scores[s].val
                /\ \/ output.val = 0
                   \/ \E s \in smaller : output.val = input.scores[s].val

C18_Witness ==
    /\ output.op = "upper_subset_score"
    /\ ~output.panic
    /\ as_usize(input.data) = 5
    /\ input.scores[2] = Some(1)
    /\ input.scores[4] = Some(3)
    /\ input.scores[5] = None
    /\ output.val = 3


\* C19: a Worker::run changes the Results table in one step only, the one
\* that ends the run after every run_ call has returned; that step writes
\* the Worker's best score under the Worker's target and leaves every other
\* key as it was, and no step turns an entry holding a score into an
\* unsolved one.
C19_WriteOnceOwnKey ==
    [][ /\ (results' # results) =>
            /\ wpc = "loop" /\ stack = <<>> /\ wpc' = "done"
            /\ \A k \in DOMAIN results : k # target => results'[k] = results[k]
        /\ (wpc # "done" /\ wpc' = "done") =>
            /\ stack = <<>>
            /\ target' = target
            /\ results'[target] = Some(best_score)
        /\ DOMAIN results' = DOMAIN results
        /\ \A k \in DOMAIN results : results[k].some => results'[k].some
      ]_vars

C19_Witness ==
    /\ wpc = "done"
    /\ target = 5
    /\ seen # {}
    /\ results[target] = Some(best_score)
    /\ results[4].some
    /\ ~results[MaxTarget].some


\* The sum over all placed entries of type index x layer.
RECURSIVE TypeLayerTotal(_, _)
TypeLayerTotal(pieces, n) ==
    IF n = 0 THEN 0
    ELSE (pieces[n].id \div MAX_ROTATIONS) * pieces[n].z
            + TypeLayerTotal(pieces, n - 1)

\* C20: State::score is the sum over the placed entries of type index x
\* layer; a successful try_place that lands a piece of type t on layer z
\* raises the score by exactly t x z: by 0 on the ground layer, by the type
\* index at z = 1.
C20_Score ==
    /\ [](score(state) = TypeLayerTotal(state, Len(state)))
    /\ [][ (state' # state) =>
            /\ Len(state') = Len(state) + 1
            /\ score(state') =
                  score(state) + (last'.id \div MAX_ROTATIONS) * last'.z
            /\ last'.z = 0 => score(state') = score(state)
            /\ last'.z = 1 =>
                  score(state') = score(state) + (last'.id \div MAX_ROTATIONS)
       ]_vars

C20_Witness ==
    /\ last.z = 1
    /\ last.id \div MAX_ROTATIONS = 1
    /\ Len(state) = 3
    /\ score(state) = 1


\* C21: a run_ call that receives an empty bag returns at once: the score
\* of its State is not compared with best_score, and best_score, best_state
\* and the visited set are as they were before the call; nothing is
\* enumerated.
C21_EmptyBagReturns ==
    [][ (wpc = "enter" /\ bag_is_empty(arg.bag)) =>
            /\ wpc' = "loop"
            /\ best_score' = best_score
            /\ best_state' = best_state
            /\ seen' = seen
            /\ stack' = stack
            /\ results' = results
      ]_vars

C21_Witness ==
    /\ wpc = "loop"
    /\ bag_is_empty(arg.bag)
    /\ arg.state # State_new
    /\ arg.state \notin seen
    /\ score(arg.state) > best_score


\* The cells of a 4x4 mask: bit (3 - x) + 4 * y is cell (x, y).
MaskCells(m) ==
    {c \in (0..3) \X (0..3) : (m \div (2 ^ ((3 - c[1]) + 4 * c[2]))) % 2 = 1}

MinOf(S) == CHOOSE v \in S : \A w \in S : v <= w
MaxOf(S) == CHOOSE v \in S : \A w \in S : v >= w

\* C22 as stated: Piece::rot maps every occupied cell (x, y) to (y, 3 - x)
\* and then re-normalises, so that the rotated shape of every non-empty
\* shape has minimum x = 0 and minimum y = 0.
C22_RotNormalised ==
    (output.op = "rot" /\ input.mask # 0) =>
        LET cells == MaskCells(output.once)
        IN  /\ MinOf({c[1] : c \in cells}) = 0
            /\ MinOf({c[2] : c \in cells}) = 0

\* C22 as the code has it: Piece::rot maps every occupied cell (x, y) to
\* (y, 3 - x) inside the fixed 4x4 frame and moves nothing afterwards: the
\* minimum x of the rotated shape is the minimum y of the original and its
\* minimum y is 3 minus the maximum x of the original.
C22_RotInFrame ==
    output.op = "rot" =>
        LET before == MaskCells(input.mask)
            cells == MaskCells(output.once)
        IN  /\ cells = {<<c[2], 3 - c[1]>> : c \in before}
            /\ input.mask # 0 =>
                /\ MinOf({c[1] : c \in cells}) = MinOf({c[2] : c \in before})
                /\ MinOf({c[2] : c \in cells}) = 3 - MaxOf({c[1] : c \in before})

C22_Witness ==
    /\ output.op = "rot"
    /\ input.mask = PIECES[2]
    /\ MinOf({c[1] : c \in MaskCells(output.once)}) = 0
    /\ MinOf({c[2] : c \in MaskCells(output.once)}) = 2


\* the number of set bits of a mask
BitCount(m) == Cardinality({i \in 0..15 : (m \div (2 ^ i)) % 2 = 1})

\* C23: the construction of the overlap tables ends: every remainder pushed
\* on the queue is non-empty and has strictly fewer set bits than the shape
\* popped in that turn, no mask is pushed that was stored before and no
\* mask is in the queue twice, and the queue eventually empties.
C23_BuildTerminates ==
    /\ [][ (tables' = tables + 1) =>
             /\ Len(todo') >= Len(todo) - 1
             /\ \A j \in Len(todo)..Len(todo') :
                    /\ todo'[j] # 0
                    /\ BitCount(todo'[j]) < BitCount(Head(todo))
                    /\ todo'[j] \notin DOMAIN ids
                    /\ todo'[j] \in DOMAIN ids'
         ]_vars
    /\ [](\A i, j \in DOMAIN todo : i # j => todo[i] # todo[j])
    /\ [](\A i \in DOMAIN todo : todo[i] \in DOMAIN ids)
    /\ <>(tables > 0 /\ todo = <<>>)

C23_Witness ==
    /\ tables > Cardinality(BuildBase)
    /\ todo = <<>>
    /\ Cardinality(DOMAIN ids) = tables


\* the Bags of the table that `data` contains and that have fewer pieces
SmallerSubBags(data) ==
    {s \in Keys : /\ SubBag(from_usize(s), data)
                  /\ DataSum(from_usize(s), 0) < DataSum(data, 0)}

\* C24 as stated: for any Results table upper_subset_score(bag) returns the
\* maximum stored score over the solved Bags that are sub-multisets of bag
\* with fewer pieces, 0 when there is none; a Bag that is not solved is
\* passed over.
C24_MaxOverSolved ==
    output.op = "upper_subset_score" =>
        /\ ~output.panic
        /\ output.val =
              SetMax({0} \cup {input.scores[s].val :
                                 s \in {k \in SmallerSubBags(input.data) :
                                            input.scores[k].some}})

\* C24 as the code has it: when every sub-multiset of bag with fewer pieces
\* is solved, upper_subset_score(bag) returns the maximum of their stored
\* scores, 0 when there is none; when one of them is not solved the call
\* panics.
C24_MaxOrPanic ==
    output.op = "upper_subset_score" =>
        IF \A s \in SmallerSubBags(input.data) : input.scores[s].some
        THEN /\ ~output.panic
             /\ output.val =
                   SetMax({0} \cup {input.scores[s].val :
                                      s \in SmallerSubBags(input.data)})
        ELSE output.panic

C24_Witness ==
    /\ output.op = "upper_subset_score"
    /\ as_usize(input.data) = 4
    /\ input.scores[0] = Some(0)
    /\ input.scores[1] = Some(3)
    /\ input.scores[3] = Some(1)
    /\ input.scores[2] = None
    /\ ~output.panic
    /\ output.val = 3


\* C25: within one Worker run a State has its placements enumerated at most
\* once: run_ enumerates only for a State that is not in the visited set
\* and puts it there, the set only grows during the run, and a call with a
\* State that is in the set returns without enumerating or recursing.
C25_ExpandedOnce ==
    [][ /\ (wpc = "enter" /\ ~bag_is_empty(arg.bag) /\ arg.state \in seen) =>
            /\ wpc' = "loop"
            /\ stack' = stack
            /\ seen' = seen
            /\ best_score' = best_score
        /\ (wpc = "enter" /\ Len(stack') > Len(stack)) =>
            /\ arg.state \notin seen
            /\ seen' = seen \cup {arg.state}
        /\ (wpc \in {"enter", "loop"} /\ wpc' # "done") => seen \subseteq seen'
        /\ (wpc # "enter") => Len(stack') <= Len(stack)
      ]_vars

C25_Witness ==
    /\ wpc = "loop"
    /\ ~bag_is_empty(arg.bag)
    /\ arg.state \in seen
    /\ stack # <<>>
    /\ Head(stack).bag # arg.bag
    /\ todo_of(arg.bag, arg.state) # <<>>


\* the number of entries of each piece type in a State
PlacedCounts(pieces) ==
    [t \in Types |->
        Cardinality({i \in 1..Len(pieces) : pieces[i].id \div MAX_ROTATIONS = t})]

\* C27: at every call run_(bag, state) of a Worker run for target T the
\* piece types placed in state together with the counts in bag make up T;
\* so state holds at most 20 entries, and every placement waiting in a todo
\* list is of a type whose count in the Bag it will be taken from is not 0.
C27_BagPlusStateIsTarget ==
    /\ (wpc = "enter") =>
          /\ \A t \in Types :
                PlacedCounts(arg.state)[t] + arg.bag[t] = from_usize(target)[t]
          /\ Len(arg.state) <= 20
    /\ \A i \in 1..Len(stack) :
          \A k \in 1..Len(stack[i].todo) :
              take_ok(stack[i].bag, stack[i].todo[k].p)

C27_Witness ==
    /\ wpc = "enter"
    /\ target = MaxTarget
    /\ Len(arg.state) = 3
    /\ len(arg.bag) = 1
    /\ Len(stack) = 3
    /\ Head(stack).todo # <<>>


\* C28: on every board grown from the empty State by successful try_place
\* calls, two different pieces of the same layer have no grid cell in common.
C28_NoOverlapInLayer ==
    \A i \in 1..Len(state) : \A j \in 1..Len(state) :
        (i < j /\ state[i].z = state[j].z) =>
            PlacedCells(state[i]) \cap PlacedCells(state[j]) = {}

\* a board with two pieces on layer 1 whose bounding boxes intersect
C28_Witness ==
    \E i \in 1..Len(state) : \E j \in 1..Len(state) :
        /\ i < j
        /\ state[i].z = 1
        /\ state[j].z = 1
        /\ state[i].x - state[j].x \in -3..3
        /\ state[i].y - state[j].y \in -3..3


\* C29: Worker::run terminates: every recursive run_ call gets a Bag with
\* exactly one piece fewer than its caller's, the todo list built for a
\* State has at most one entry per id of the bag and offset of the finite
\* window, and every run that has started reaches the write of its score.
C29_RunTerminates ==
    /\ [][ /\ (wpc = "loop" /\ wpc' = "enter") =>
                len(arg'.bag) = len(Head(stack).bag) - 1
           /\ (wpc = "enter" /\ Len(stack') > Len(stack)) =>
                Len(Head(stack').todo) <=
                    Len(bag_iter(arg.bag)) * Cardinality(WindowX(arg.state))
                                           * Cardinality(WindowY(arg.state))
         ]_vars
    /\ [](Len(stack) <= len(from_usize(target)))
    /\ ((wpc = "enter") ~> (wpc = "done" /\ results[target].some))

C29_Witness ==
    /\ wpc = "done"
    /\ target = MaxTarget
    /\ results[MaxTarget].some
    /\ Cardinality(seen) >= 3


C26_SameAsSequential ==
    /\ (Running(ThisWorker) /\ Running(peer)) =>
          /\ target # peer.target
          /\ len(from_usize(target)) = len(from_usize(peer.target))
          /\ \A k \in Targets :
                len(from_usize(k)) < len(from_usize(target)) => results[k].some
    /\ \A k \in Targets :
          results[k].some => results[k] = Some(output.scores[k].val)

\* one Worker has written its score while the other one, started before
\* that write, is in the middle of its run
C26_Witness ==
    /\ wpc = "done"
    /\ results[target].some
    /\ Running(peer)
    /\ peer.target # target
    /\ len(from_usize(peer.target)) = len(from_usize(target))
    /\ Cardinality(peer.seen) >= 2
    /\ Cardinality(seen) >= 2
    /\ peer.stack # <<>>

====
